---- MODULE Spec2Model ----
(***************************************************************************)
(* Model of the challenge tracking engine of                               *)
(* SportChallangeDerevo_upgrade_bot.py: class FitnessChallengeBot (the     *)
(* store user_data, get_user_data, create_challenge, add_reps, save_data)  *)
(* driven by arbitrary callers, with the wall clock as an explicit         *)
(* variable.                                                               *)
(*                                                                         *)
(* Time.  datetime.now() is modelled as the integer `now`, counted in      *)
(* ticks.  strftime('%Y%m%d_%H%M%S') truncates an instant to its second    *)
(* (SecondOf) and strftime('%Y-%m-%d') to its calendar day (DayOf).        *)
(* isoformat() keeps the whole instant.                                    *)
(*                                                                         *)
(* Floats.  total_reps / days is Python's true division: the result is     *)
(* the binary64 number nearest to the quotient.  A float is modelled by    *)
(* the fraction it was rounded from, [num, den]; FloatIsExact tells        *)
(* whether rounding changed the value (it did not iff the reduced          *)
(* denominator is a power of two, the numerators here being far below      *)
(* 2^53).                                                                  *)
(*                                                                         *)
(* Calls.  One call of create_challenge or add_reps is one step: the       *)
(* handlers run on one event loop and neither method awaits, so nothing    *)
(* interleaves with a call, and the datetime.now() reads of one call are   *)
(* taken at one instant.  Between calls the clock may stand still or       *)
(* advance (Tick).  Spec lets callers pass any int; SpecPositive lets      *)
(* them pass positive quantities only, as handle_message does.  The file   *)
(* writes of save_data succeed in both; SpecPersist adds a disk that may   *)
(* stop and resume working and a process that may be restarted.            *)
(*                                                                         *)
(* Chat.  SpecChat drives the engine through handle_message and            *)
(* handle_callback_query for one user: context.user_data is the dict of    *)
(* the conversation, keyboards the sent messages whose inline buttons can  *)
(* still be pressed.  One handler run is one step.                         *)
(***************************************************************************)
EXTENDS Integers, FiniteSets, Sequences, TLC

(* ------------------------------ bounds -------------------------------- *)
TicksPerSecond == 2
SecondsPerDay == 1
MaxDay == 1
MaxTotalReps == 2
MaxDays == 3
MaxReps == 2
MaxCalls == 3
LastDay == 2
MaxKeyboards == 2

(* the limits handle_message checks the numbers of a conversation against *)
TotalRepsLimit == 100000
DaysLimit == 365
RepsLimit == 10000

TicksPerDay == TicksPerSecond * SecondsPerDay
(* the run ends at the first instant of day MaxDay *)
MaxTime == MaxDay * TicksPerDay

(* datetime.max: the last instant of the last day of the calendar *)
DatetimeMax == (LastDay + 1) * TicksPerDay - 1

(* user ids are the strings the handlers build with str(user.id) *)
Users == {"1", "2"}
(* members of ExerciseType the callers choose from, by name *)
Exercises == {"PUSHUPS", "SQUATS"}

(* arguments a caller may pass: the engine takes any int *)
TotalRepsIn == {0, MaxTotalReps}
DaysIn == {0 - 1, 0, 1, MaxDays}
RepsIn == {0 - 1, 0, 1, MaxReps}

VARIABLES user_data, disk, now, result, calls, reminder, disk_ok,
          context_user_data, keyboards

vars == <<user_data, disk, now, result, calls, reminder, disk_ok,
          context_user_data, keyboards>>

(* ------------------------------ enums --------------------------------- *)
ACTIVE == "active"
COMPLETED == "completed"
PAUSED == "paused"
FAILED == "failed"
ChallengeStatus == {ACTIVE, COMPLETED, PAUSED, FAILED}

ExerciseValue(name) ==
    CASE name = "PUSHUPS" -> "push-ups"
      [] name = "SQUATS" -> "squats"
      [] name = "PULLUPS" -> "pull-ups"
      [] name = "SITUPS" -> "sit-ups"
      [] name = "BURPEES" -> "burpees"
      [] name = "PLANKS" -> "planks (seconds)"

(* ------------------------------ clock --------------------------------- *)
SecondOf(t) == t \div TicksPerSecond
DayOf(t) == t \div TicksPerDay
(* timedelta(days=d) *)
timedelta(d) == d * TicksPerDay

(* ------------------------------ floats -------------------------------- *)
Abs(x) == IF x < 0 THEN 0 - x ELSE x

RECURSIVE Gcd(_, _)
Gcd(a, b) == IF b = 0 THEN a ELSE Gcd(b, a % b)

RECURSIVE IsPowerOfTwo(_)
IsPowerOfTwo(n) ==
    IF n = 1 THEN TRUE
    ELSE IF n < 1 \/ n % 2 # 0 THEN FALSE
    ELSE IsPowerOfTwo(n \div 2)

(* a / b for ints a, b with b # 0: the binary64 nearest to the quotient *)
TrueDiv(a, b) == [num |-> a, den |-> b]

(* the float holds the quotient itself, rounding changed nothing *)
FloatIsExact(f) == IsPowerOfTwo(Abs(f.den) \div Gcd(Abs(f.den), Abs(f.num)))

(* ------------------------------ store --------------------------------- *)
EmptyStore == <<>>

DefaultProfile ==
    [challenges |-> <<>>,
     timezone |-> "UTC",
     reminder_times |-> [morning |-> "09:00", evening |-> "20:00"],
     reminders_enabled |-> TRUE]

(* the file DATA_FILE: absent until the first save, then the json.dump of
   the store that was saved last, or what a dump that failed left of it *)
NoFile == [kind |-> "absent", data |-> EmptyStore]
Dump(store) == [kind |-> "dump", data |-> store]
PartialDump == [kind |-> "partial", data |-> EmptyStore]

(* save_data that writes nothing *)
save_dataNoWrite(store, old, ok) == {old}

(* save_data: the files it may leave.  While the disk works, the dump of the
   store; while it does not, the old file (open failed) or a part of a dump
   (a write failed), the exception being logged *)
save_data(store, old, ok) ==
    IF ok THEN {Dump(store)} ELSE {old, PartialDump}

(* load_data: the store it returns.  {} when the file does not exist and
   when opening or parsing it fails, else what json.load reads back *)
load_data(file, ok) ==
    IF file.kind = "dump" /\ ok THEN file.data ELSE EmptyStore

(* get_user_data without its membership test: the profile is rebuilt from
   the defaults at every call *)
get_user_dataAlwaysDefault(store, user_id) ==
    [u \in DOMAIN store \cup {user_id} |->
        IF u = user_id THEN DefaultProfile ELSE store[u]]

(* the store after get_user_data(user_id) *)
get_user_data(store, user_id) ==
    IF user_id \in DOMAIN store THEN store
    ELSE (user_id :> DefaultProfile) @@ store

(* the file after get_user_data(user_id): it saves only when it created the
   profile *)
get_user_data_file(store, user_id, old, ok) ==
    IF user_id \in DOMAIN store THEN {old}
    ELSE save_data(get_user_data(store, user_id), old, ok)

(* f"{exercise.name}_{datetime.now().strftime('%Y%m%d_%H%M%S')}" *)
ChallengeId(exercise, t) == <<exercise, SecondOf(t)>>

(* ids a caller may name: any exercise with any second of the run *)
ChallengeIds == Exercises \X (0..SecondOf(MaxTime))

(* create_challenge with days silently clamped to an upper limit *)
NewChallengeClamped(exercise, total_reps, days, t) ==
    LET clamped == IF days >= MaxDays THEN MaxDays - 1 ELSE days
    IN  [id |-> ChallengeId(exercise, t),
         exercise |-> ExerciseValue(exercise),
         total_reps |-> total_reps,
         target_days |-> clamped,
         current_reps |-> 0,
         start_date |-> t,
         target_date |-> t + timedelta(clamped),
         status |-> ACTIVE,
         daily_records |-> <<>>,
         daily_target |-> TrueDiv(total_reps, clamped)]

(* the dict built by create_challenge; days # 0 *)
NewChallenge(exercise, total_reps, days, t) ==
    [id |-> ChallengeId(exercise, t),
     exercise |-> ExerciseValue(exercise),
     total_reps |-> total_reps,
     target_days |-> days,
     current_reps |-> 0,
     start_date |-> t,
     target_date |-> t + timedelta(days),
     status |-> ACTIVE,
     daily_records |-> <<>>,
     daily_target |-> TrueDiv(total_reps, days)]

(* daily_records[today] = reps: the day's entry overwritten, not incremented *)
RecordTodayOverwrite(daily_records, today, reps) ==
    (today :> reps) @@ daily_records

(* challenge['daily_records'][today] += reps, the key created at 0 if absent *)
RecordToday(daily_records, today, reps) ==
    IF today \in DOMAIN daily_records
    THEN [daily_records EXCEPT ![today] = @ + reps]
    ELSE (today :> (0 + reps)) @@ daily_records

(* the completion check of add_reps on the challenge already incremented *)
CheckCompleted(challenge, t) ==
    IF challenge.current_reps >= challenge.total_reps
    THEN ("completion_date" :> t) @@ [challenge EXCEPT !.status = COMPLETED]
    ELSE challenge

(* add_reps that also recomputes daily_target from the reps still to do *)
AddRepsToRecomputing(challenge, reps, t) ==
    CheckCompleted(
        [challenge EXCEPT !.current_reps = @ + reps,
                          !.daily_records = RecordToday(@, DayOf(t), reps),
                          !.daily_target =
                              TrueDiv(challenge.total_reps - (challenge.current_reps + reps),
                                      challenge.target_days)],
        t)

(* the body of add_reps on the challenge it found *)
AddRepsTo(challenge, reps, t) ==
    CheckCompleted(
        [challenge EXCEPT !.current_reps = @ + reps,
                          !.daily_records = RecordToday(@, DayOf(t), reps)],
        t)

(* ----------------------------- behaviour ------------------------------ *)
(* what the last call gave back to its caller *)
NoResult == [op |-> "none"]
Returned(op, value) == [op |-> op, raised |-> FALSE, value |-> value]
Raised(op, exception) == [op |-> op, raised |-> TRUE, exception |-> exception]

(* the job send_daily_reminders before its first firing *)
NoFiring ==
    [pc |-> "idle", size |-> 0, visited |-> {}, sent |-> <<>>, awaiting |-> FALSE,
     logged |-> {}, exception |-> "none"]

Init ==
    /\ user_data = EmptyStore
    /\ disk = NoFile
    /\ now = 0
    /\ result = NoResult
    /\ calls = 0
    /\ reminder = NoFiring
    /\ disk_ok = TRUE
    /\ context_user_data = <<>>
    /\ keyboards = <<>>

(* one more call of the engine, of at most MaxCalls in a run *)
Called ==
    /\ calls < MaxCalls
    /\ calls' = calls + 1
    /\ UNCHANGED <<now, reminder, disk_ok>>

(* the clock advances *)
Tick ==
    /\ now < MaxTime
    /\ now' = now + 1
    /\ UNCHANGED <<user_data, disk, result, calls, reminder, disk_ok>>
    /\ UNCHANGED <<context_user_data, keyboards>>

(* create_challenge on a store whose profiles share one challenges dict:
   the challenge shows up under every user *)
create_challengeShared(user_id, exercise, total_reps, days) ==
    LET store1 == get_user_data(user_data, user_id)
        challenge_id == ChallengeId(exercise, now)
    IN  /\ Called
        /\ days # 0
        /\ user_data' =
               [v \in DOMAIN store1 |->
                   [store1[v] EXCEPT !.challenges =
                       (challenge_id :> NewChallenge(exercise, total_reps, days, now)) @@ @]]
        /\ disk' \in save_data(user_data', disk, disk_ok)
        /\ result' = Returned("create_challenge", challenge_id)

(* bot_instance.create_challenge(user_id, exercise, total_reps, days) *)
create_challenge(user_id, exercise, total_reps, days) ==
    LET store1 == get_user_data(user_data, user_id)
        file1 == get_user_data_file(user_data, user_id, disk, disk_ok)
        challenge_id == ChallengeId(exercise, now)
    IN  /\ Called
        /\ IF days = 0
           THEN (* total_reps / days raises: nothing inserted, no save *)
                /\ user_data' = store1
                /\ disk' \in file1
                /\ result' = Raised("create_challenge", "ZeroDivisionError")
           ELSE /\ user_data' =
                       [store1 EXCEPT ![user_id].challenges =
                           (challenge_id :> NewChallenge(exercise, total_reps, days, now)) @@ @]
                /\ disk' \in UNION {save_data(user_data', f, disk_ok) : f \in file1}
                /\ result' = Returned("create_challenge", challenge_id)

(* bot_instance.add_reps(user_id, challenge_id, reps) *)
add_reps(user_id, challenge_id, reps) ==
    LET store1 == get_user_data(user_data, user_id)
        file1 == get_user_data_file(user_data, user_id, disk, disk_ok)
    IN  /\ Called
        /\ IF challenge_id \notin DOMAIN store1[user_id].challenges
           THEN /\ user_data' = store1
                /\ disk' \in file1
                /\ result' = Returned("add_reps", FALSE)
           ELSE /\ user_data' =
                       [store1 EXCEPT ![user_id].challenges[challenge_id] =
                           AddRepsTo(@, reps, now)]
                /\ disk' \in UNION {save_data(user_data', f, disk_ok) : f \in file1}
                /\ result' = Returned("add_reps", TRUE)

(* a call that no chat handler made: the conversations stay as they are *)
NoChat == UNCHANGED <<context_user_data, keyboards>>

Next ==
    \/ Tick
    \/ \E u \in Users, e \in Exercises, n \in TotalRepsIn, d \in DaysIn :
           create_challenge(u, e, n, d) /\ NoChat
    \/ \E u \in Users, c \in ChallengeIds, r \in RepsIn :
           add_reps(u, c, r) /\ NoChat

Spec == Init /\ [][Next]_vars

(* the same engine when every caller passes positive quantities only, as
   handle_message does after its own checks *)
Positive(S) == {x \in S : x > 0}

NextPositive ==
    \/ Tick
    \/ \E u \in Users, e \in Exercises :
           \E n \in Positive(TotalRepsIn), d \in Positive(DaysIn) :
               create_challenge(u, e, n, d) /\ NoChat
    \/ \E u \in Users, c \in ChallengeIds, r \in Positive(RepsIn) :
           add_reps(u, c, r) /\ NoChat

SpecPositive == Init /\ [][NextPositive]_vars

(* ------------------------- reading the store -------------------------- *)
(* every (user id, challenge id) of a store *)
ChallengeRefs(store) ==
    UNION {{<<u, c>> : c \in DOMAIN store[u].challenges} : u \in DOMAIN store}

ChallengeAt(store, ref) == store[ref[1]].challenges[ref[2]]

ChallengeIdsOf(store, u) ==
    IF u \in DOMAIN store THEN DOMAIN store[u].challenges ELSE {}

HasCompletionDate(challenge) == "completion_date" \in DOMAIN challenge

RECURSIVE SumValues(_)
SumValues(f) ==
    IF DOMAIN f = {} THEN 0
    ELSE LET k == CHOOSE x \in DOMAIN f : TRUE
         IN  f[k] + SumValues([x \in DOMAIN f \ {k} |-> f[x]])

(* ------------------------ progress snapshots -------------------------- *)
(* timedelta.days of a difference of two instants: the floor, also when the
   difference is negative *)
DaysOf(ticks) == ticks \div TicksPerDay

(* max(a, b) *)
Max(a, b) == IF a >= b THEN a ELSE b

(* order of two floats, by the fractions they were rounded from: rounding
   is monotonic and the fractions here are too coarse to collide *)
FloatNum(f) == IF f.den < 0 THEN 0 - f.num ELSE f.num
FloatGE(f, g) == FloatNum(f) * Abs(g.den) >= FloatNum(g) * Abs(f.den)
FloatGT0(f) == FloatNum(f) > 0

(* None *)
None == [is_none |-> TRUE]

(* projected_date: None, or now + timedelta(days = days_to_completion) *)
ProjectedDate(challenge, actual_daily_avg, t) ==
    IF FloatGT0(actual_daily_avg)
    THEN [is_none |-> FALSE,
          from |-> t,
          days |-> TrueDiv((challenge.total_reps - challenge.current_reps)
                               * actual_daily_avg.den,
                           actual_daily_avg.num)]
    ELSE None

(* datetime.now() + timedelta(days = days_to_completion) raises
   OverflowError: the date is after datetime.max.  (A date before
   datetime.min would raise as well; days_to_completion is above
   -days_elapsed whenever total_reps >= 0, so there is none.) *)
ProjectedDateOverflows(challenge, t) ==
    LET days_elapsed == DaysOf(t - challenge.start_date) + 1
        projected_date ==
            ProjectedDate(challenge, TrueDiv(challenge.current_reps, days_elapsed), t)
    IN  /\ days_elapsed > 0
        /\ ~projected_date.is_none
        /\ t * Abs(projected_date.days.den)
               + FloatNum(projected_date.days) * TicksPerDay
             > DatetimeMax * Abs(projected_date.days.den)

(* the dict get_challenge_progress returns for a challenge it found;
   total_reps # 0 and the projected date is in the calendar *)
Progress(challenge, t) ==
    LET days_elapsed == DaysOf(t - challenge.start_date) + 1
        days_remaining == DaysOf(challenge.target_date - t)
        actual_daily_avg ==
            IF days_elapsed > 0 THEN TrueDiv(challenge.current_reps, days_elapsed)
            ELSE TrueDiv(0, 1)
        needed_daily_avg ==
            TrueDiv(challenge.total_reps - challenge.current_reps,
                    Max(days_remaining, 1))
    IN  [challenge |-> challenge,
         percentage |-> TrueDiv(challenge.current_reps * 100, challenge.total_reps),
         days_elapsed |-> days_elapsed,
         days_remaining |-> days_remaining,
         actual_daily_avg |-> actual_daily_avg,
         needed_daily_avg |-> needed_daily_avg,
         projected_date |-> ProjectedDate(challenge, actual_daily_avg, t),
         on_track |-> FloatGE(actual_daily_avg, challenge.daily_target)]

(* what get_challenge_progress(user_id, challenge_id) gives back on a store
   that holds the user: None, the snapshot, the OverflowError of the
   projected date or the ZeroDivisionError of current_reps / total_reps *)
ProgressResult(op, store, user_id, challenge_id, t) ==
    IF challenge_id \notin DOMAIN store[user_id].challenges
    THEN Returned(op, None)
    ELSE IF ProjectedDateOverflows(store[user_id].challenges[challenge_id], t)
    THEN Raised(op, "OverflowError")
    ELSE IF store[user_id].challenges[challenge_id].total_reps = 0
    THEN Raised(op, "ZeroDivisionError")
    ELSE Returned(op, Progress(store[user_id].challenges[challenge_id], t))

(* a set as a list, in some fixed order *)
RECURSIVE SeqOf(_)
SeqOf(S) ==
    IF S = {} THEN <<>>
    ELSE LET x == CHOOSE y \in S : TRUE IN <<x>> \o SeqOf(S \ {x})

(* the challenge ids get_active_challenges keeps: status is "active" *)
ActiveIds(profile) ==
    {c \in DOMAIN profile.challenges : profile.challenges[c].status = ACTIVE}

(* what get_active_challenges(user_id) gives back on a store that holds the
   user: the list of the snapshots of the active challenges, in the order of
   the dict (some fixed order here), or the exception of the first
   get_challenge_progress that raised *)
ActiveResult(op, store, user_id, t) ==
    LET ids == SeqOf(ActiveIds(store[user_id]))
        progress(i) == ProgressResult(op, store, user_id, ids[i], t)
        failed == {i \in 1..Len(ids) : progress(i).raised}
    IN  IF failed # {}
        THEN progress(CHOOSE i \in failed : \A j \in failed : i <= j)
        ELSE Returned(op, [i \in 1..Len(ids) |-> progress(i).value])

(* bot_instance.get_challenge_progress(user_id, challenge_id) *)
get_challenge_progress(user_id, challenge_id) ==
    /\ Called
    /\ user_data' = get_user_data(user_data, user_id)
    /\ disk' \in get_user_data_file(user_data, user_id, disk, disk_ok)
    /\ result' = ProgressResult("get_challenge_progress", user_data', user_id,
                                challenge_id, now)

(* bot_instance.get_active_challenges(user_id) *)
get_active_challenges(user_id) ==
    /\ Called
    /\ user_data' = get_user_data(user_data, user_id)
    /\ disk' \in get_user_data_file(user_data, user_id, disk, disk_ok)
    /\ result' = ActiveResult("get_active_challenges", user_data', user_id, now)

(* the engine with its four methods, callers passing any int *)
NextRead ==
    \/ Tick
    \/ \E u \in Users, e \in Exercises, n \in TotalRepsIn, d \in DaysIn :
           create_challenge(u, e, n, d) /\ NoChat
    \/ \E u \in Users, c \in ChallengeIds, r \in RepsIn :
           add_reps(u, c, r) /\ NoChat
    \/ \E u \in Users, c \in ChallengeIds :
           get_challenge_progress(u, c) /\ NoChat
    \/ \E u \in Users :
           get_active_challenges(u) /\ NoChat

SpecRead == Init /\ [][NextRead]_vars

(* the same when every caller passes positive quantities only *)
NextReadPositive ==
    \/ Tick
    \/ \E u \in Users, e \in Exercises :
           \E n \in Positive(TotalRepsIn), d \in Positive(DaysIn) :
               create_challenge(u, e, n, d) /\ NoChat
    \/ \E u \in Users, c \in ChallengeIds, r \in Positive(RepsIn) :
           add_reps(u, c, r) /\ NoChat
    \/ \E u \in Users, c \in ChallengeIds :
           get_challenge_progress(u, c) /\ NoChat
    \/ \E u \in Users :
           get_active_challenges(u) /\ NoChat

SpecReadPositive == Init /\ [][NextReadPositive]_vars

(* ----------------------------- reminders ------------------------------ *)
(* user ids the store may hold when any caller may use the engine: one that
   str(user.id) produces and one that is not a number *)
AnyUsers == {"1", "abc"}

(* int(s) for the strings that occur: the number, or ValueError *)
int(s) ==
    CASE s = "0" -> [ok |-> TRUE, value |-> 0]
      [] s = "1" -> [ok |-> TRUE, value |-> 1]
      [] s = "2" -> [ok |-> TRUE, value |-> 2]
      [] s = "366" -> [ok |-> TRUE, value |-> 366]
      [] s = "100001" -> [ok |-> TRUE, value |-> 100001]
      [] OTHER -> [ok |-> FALSE]

(* exercise.title() *)
Title(exercise) ==
    CASE exercise = "push-ups" -> "Push-Ups"
      [] exercise = "squats" -> "Squats"
      [] exercise = "pull-ups" -> "Pull-Ups"
      [] exercise = "sit-ups" -> "Sit-Ups"
      [] exercise = "burpees" -> "Burpees"
      [] exercise = "planks (seconds)" -> "Planks (Seconds)"

(* f"{x:.0f}": the integer nearest to the float, ties to the even one *)
Format0f(f) ==
    LET n == FloatNum(f)
        d == Abs(f.den)
        q == n \div d
        r == n - q * d
    IN  IF 2 * r < d THEN q
        ELSE IF 2 * r > d THEN q + 1
        ELSE IF q % 2 = 0 THEN q ELSE q + 1

(* challenge['daily_records'].get(today, 0) *)
TodayReps(challenge, t) ==
    IF DayOf(t) \in DOMAIN challenge.daily_records
    THEN challenge.daily_records[DayOf(t)]
    ELSE 0

(* the line send_daily_reminders appends for one snapshot: which of the
   three texts, and the number the text shows *)
ReminderLine(progress, t) ==
    LET challenge == progress.challenge
        daily_target == challenge.daily_target
        today_reps == TodayReps(challenge, t)
        remaining == TrueDiv(daily_target.num - today_reps * daily_target.den,
                             daily_target.den)
    IN  IF today_reps = 0
        THEN [exercise |-> Title(challenge.exercise), class |-> "reps needed",
              value |-> daily_target, shown |-> Format0f(daily_target)]
        ELSE IF ~FloatGE(TrueDiv(today_reps, 1), daily_target)
        THEN [exercise |-> Title(challenge.exercise), class |-> "more reps",
              value |-> remaining, shown |-> Format0f(remaining)]
        ELSE [exercise |-> Title(challenge.exercise), class |-> "goal achieved"]

(* one pass of the loop body of send_daily_reminders for user_id: what
   became of the user *)
RemindUser(store, user_id, t) ==
    LET active_challenges == ActiveResult("get_active_challenges", store, user_id, t)
    IN  IF ~store[user_id].reminders_enabled
        THEN [outcome |-> "continue"]
        ELSE IF active_challenges.raised
        THEN [outcome |-> "raised", exception |-> active_challenges.exception]
        ELSE IF Len(active_challenges.value) = 0
        THEN [outcome |-> "continue"]
        ELSE IF ~int(user_id).ok
        THEN [outcome |-> "logged"]
        ELSE [outcome |-> "send_message",
              lines |-> [i \in 1..Len(active_challenges.value) |->
                            ReminderLine(active_challenges.value[i], t)]]

(* the job queue starts send_daily_reminders: the for loop takes an iterator
   of bot_instance.user_data *)
send_daily_reminders ==
    /\ reminder.pc = "idle"
    /\ reminder' = [NoFiring EXCEPT !.pc = "running",
                                     !.size = Cardinality(DOMAIN user_data)]
    /\ UNCHANGED <<user_data, disk, now, result, calls, disk_ok>>
    /\ UNCHANGED <<context_user_data, keyboards>>

(* the loop body for the next user of the iteration, up to its continue or
   to the await of send_message.  Telegram delivers the message or
   send_message raises (the user blocked the bot, the network is down); what
   int(user_id) or send_message raises is caught and logged, what
   get_active_challenges raises is not. *)
remind(user_id, delivered) ==
    LET did == RemindUser(user_data, user_id, now)
    IN  /\ reminder.pc = "running"
        /\ Cardinality(DOMAIN user_data) = reminder.size
        /\ user_id \in DOMAIN user_data \ reminder.visited
        /\ did.outcome # "send_message" => delivered
        /\ reminder' =
               [reminder EXCEPT
                   !.pc = IF did.outcome = "raised" THEN "raised" ELSE @,
                   !.exception = IF did.outcome = "raised" THEN did.exception ELSE @,
                   !.visited = @ \cup {user_id},
                   !.awaiting = (did.outcome = "send_message"),
                   !.sent = IF did.outcome = "send_message"
                            THEN (user_id :> did.lines) @@ @ ELSE @,
                   !.logged = IF did.outcome = "logged" \/ ~delivered
                              THEN @ \cup {user_id} ELSE @]
        /\ UNCHANGED <<user_data, disk, now, result, calls, disk_ok>>
        /\ UNCHANGED <<context_user_data, keyboards>>

(* the same when Telegram delivers every message *)
remind_user(user_id) == remind(user_id, TRUE)

(* the iterator finds that the dict changed size during iteration *)
remind_changed_size ==
    /\ reminder.pc = "running"
    /\ Cardinality(DOMAIN user_data) # reminder.size
    /\ reminder' = [reminder EXCEPT !.pc = "raised", !.awaiting = FALSE,
                                     !.exception = "RuntimeError"]
    /\ UNCHANGED <<user_data, disk, now, result, calls, disk_ok>>
    /\ UNCHANGED <<context_user_data, keyboards>>

(* the iterator is exhausted: send_daily_reminders returns *)
send_daily_reminders_return ==
    /\ reminder.pc = "running"
    /\ Cardinality(DOMAIN user_data) = reminder.size
    /\ reminder.visited = DOMAIN user_data
    /\ reminder' = [reminder EXCEPT !.pc = "returned", !.awaiting = FALSE]
    /\ UNCHANGED <<user_data, disk, now, result, calls, disk_ok>>
    /\ UNCHANGED <<context_user_data, keyboards>>

(* handlers run while no firing is under way or while the firing is
   suspended at its await *)
HandlersMayRun == reminder.pc # "running" \/ reminder.awaiting

(* the engine used by any caller, and the job *)
NextReminder ==
    \/ Tick
    \/ \E u \in AnyUsers, e \in Exercises, n \in TotalRepsIn, d \in DaysIn :
           HandlersMayRun /\ create_challenge(u, e, n, d) /\ NoChat
    \/ \E u \in AnyUsers, c \in ChallengeIds, r \in RepsIn :
           HandlersMayRun /\ add_reps(u, c, r) /\ NoChat
    \/ send_daily_reminders
    \/ \E u \in AnyUsers : remind_user(u)
    \/ remind_changed_size
    \/ send_daily_reminders_return

SpecReminder == Init /\ [][NextReminder]_vars

(* the same with the users and the quantities the handlers pass *)
NextReminderPositive ==
    \/ Tick
    \/ \E u \in Users, e \in Exercises :
           \E n \in Positive(TotalRepsIn), d \in Positive(DaysIn) :
               HandlersMayRun /\ create_challenge(u, e, n, d) /\ NoChat
    \/ \E u \in Users, c \in ChallengeIds, r \in Positive(RepsIn) :
           HandlersMayRun /\ add_reps(u, c, r) /\ NoChat
    \/ send_daily_reminders
    \/ \E u \in Users : remind_user(u)
    \/ remind_changed_size
    \/ send_daily_reminders_return

SpecReminderPositive == Init /\ [][NextReminderPositive]_vars

(* the job when send_message may raise and the store may hold a user id
   that is not a number; the quantities are those the handlers pass *)
NextReminderFaults ==
    \/ Tick
    \/ \E u \in AnyUsers, e \in Exercises :
           \E n \in Positive(TotalRepsIn), d \in Positive(DaysIn) :
               HandlersMayRun /\ create_challenge(u, e, n, d) /\ NoChat
    \/ \E u \in AnyUsers, c \in ChallengeIds, r \in Positive(RepsIn) :
           HandlersMayRun /\ add_reps(u, c, r) /\ NoChat
    \/ send_daily_reminders
    \/ \E u \in AnyUsers, delivered \in BOOLEAN : remind(u, delivered)
    \/ remind_changed_size
    \/ send_daily_reminders_return

SpecReminderFaults == Init /\ [][NextReminderFaults]_vars

(* ---------------------------- persistence ----------------------------- *)
(* opening or writing DATA_FILE starts to fail *)
disk_breaks ==
    /\ disk_ok
    /\ disk_ok' = FALSE
    /\ UNCHANGED <<user_data, disk, now, result, calls, reminder>>
    /\ UNCHANGED <<context_user_data, keyboards>>

(* and works again *)
disk_recovers ==
    /\ ~disk_ok
    /\ disk_ok' = TRUE
    /\ UNCHANGED <<user_data, disk, now, result, calls, reminder>>
    /\ UNCHANGED <<context_user_data, keyboards>>

(* the process is started again: bot_instance = FitnessChallengeBot() loads
   the file *)
restart ==
    /\ user_data' = load_data(disk, disk_ok)
    /\ result' = NoResult
    /\ reminder' = NoFiring
    /\ context_user_data' = <<>>
    /\ UNCHANGED <<disk, now, calls, disk_ok, keyboards>>

(* saving and loading treat the store as a whole: one user is enough *)
OneUser == {"1"}

NextPersist ==
    \/ Tick
    \/ \E u \in OneUser, e \in Exercises, n \in TotalRepsIn, d \in DaysIn :
           create_challenge(u, e, n, d) /\ NoChat
    \/ \E u \in OneUser, c \in ChallengeIds, r \in RepsIn :
           add_reps(u, c, r) /\ NoChat
    \/ disk_breaks
    \/ disk_recovers
    \/ restart

SpecPersist == Init /\ [][NextPersist]_vars

(* ------------------------------- chat --------------------------------- *)
(* context.user_data of a user, a dict that is empty until written *)
ContextOf(user_id) ==
    IF user_id \in DOMAIN context_user_data THEN context_user_data[user_id]
    ELSE <<>>

(* context.user_data.get('challenge_step') == step *)
StepIs(context, step) ==
    "challenge_step" \in DOMAIN context /\ context.challenge_step = step

(* context.user_data.get('adding_reps') *)
AddingReps(context) ==
    "adding_reps" \in DOMAIN context /\ context.adding_reps

(* what the user may type: three of the menu buttons, and text that is no
   number, a number too small, a number in range, a number above every
   limit *)
Texts == {"New Challenge", "My Challenges", "Add Reps",
          "abc", "0", "1", "100001"}

(* the numbers among them *)
TextNumbers == {int(text).value : text \in {t \in Texts : int(t).ok}}

(* the callback data on the buttons of a message *)
ButtonsOf(keyboard) ==
    IF keyboard.kind = "exercise"
    THEN {[prefix |-> "exercise_", exercise |-> e] : e \in Exercises}
    ELSE {[prefix |-> "add_reps_", challenge_id |-> c] : c \in keyboard.ids}

(* the messages with an inline keyboard once message i was edited to plain
   text *)
WithoutKeyboard(i) ==
    [j \in 1..(Len(keyboards) - 1) |->
        IF j < i THEN keyboards[j] ELSE keyboards[j + 1]]

(* a read method of the engine called by a handler: the store and the file
   after its get_user_data.  What it gave back is a local of the handler,
   gone when the handler returns. *)
Reads(user_id) ==
    /\ user_data' = get_user_data(user_data, user_id)
    /\ disk' \in get_user_data_file(user_data, user_id, disk, disk_ok)
    /\ UNCHANGED <<now, result, calls, reminder, disk_ok>>

(* handle_new_challenge: a message with one button for each exercise *)
handle_new_challenge(user_id) ==
    /\ Len(keyboards) < MaxKeyboards
    /\ keyboards' = Append(keyboards, [user |-> user_id, kind |-> "exercise", ids |-> {}])
    /\ UNCHANGED <<user_data, disk, now, result, calls, reminder, disk_ok,
                   context_user_data>>

(* handle_my_challenges and handle_progress: the active challenges are
   listed; nothing is kept *)
handle_my_challenges(user_id) ==
    /\ Reads(user_id)
    /\ UNCHANGED <<context_user_data, keyboards>>

(* handle_add_reps: a message with one button for each active challenge, if
   there is one and get_active_challenges did not raise *)
handle_add_reps(user_id) ==
    LET store1 == get_user_data(user_data, user_id)
        active_challenges == ActiveResult("get_active_challenges", store1, user_id, now)
    IN  /\ Len(keyboards) < MaxKeyboards
        /\ Reads(user_id)
        /\ keyboards' =
               IF active_challenges.raised \/ Len(active_challenges.value) = 0
               THEN keyboards
               ELSE Append(keyboards, [user |-> user_id, kind |-> "add_reps",
                                       ids |-> ActiveIds(store1[user_id])])
        /\ UNCHANGED context_user_data

(* handle_callback_query: the user presses a button of message i *)
handle_callback_query(i, data) ==
    LET user_id == keyboards[i].user
        context == ContextOf(user_id)
    IN  IF data.prefix = "exercise_"
        THEN /\ context_user_data' =
                    (user_id :> (("selected_exercise" :> data.exercise)
                                 @@ ("challenge_step" :> "total_reps")
                                 @@ context))
                    @@ context_user_data
             /\ keyboards' = WithoutKeyboard(i)
             /\ UNCHANGED <<user_data, disk, now, result, calls, reminder, disk_ok>>
        ELSE LET progress ==
                     ProgressResult("get_challenge_progress",
                                    get_user_data(user_data, user_id), user_id,
                                    data.challenge_id, now)
             IN  /\ context_user_data' =
                        (user_id :> (("selected_challenge" :> data.challenge_id)
                                     @@ ("adding_reps" :> TRUE)
                                     @@ context))
                        @@ context_user_data
                 /\ Reads(user_id)
                 /\ keyboards' =
                        IF ~progress.raised /\ progress.value # None
                        THEN WithoutKeyboard(i) ELSE keyboards

(* handle_message, branch challenge_step == 'total_reps' *)
message_total_reps(user_id, text) ==
    LET total_reps == int(text)
    IN  IF ~total_reps.ok \/ total_reps.value <= 0 \/ total_reps.value > TotalRepsLimit
        THEN UNCHANGED vars
        ELSE /\ context_user_data' =
                    (user_id :> (("total_reps" :> total_reps.value)
                                 @@ ("challenge_step" :> "days")
                                 @@ ContextOf(user_id)))
                    @@ context_user_data
             /\ UNCHANGED <<user_data, disk, now, result, calls, reminder, disk_ok,
                            keyboards>>

(* the branch challenge_step == 'days' without the check days > 365 *)
message_daysAnyLength(user_id, text) ==
    LET days == int(text)
        context == ContextOf(user_id)
    IN  IF ~days.ok \/ days.value <= 0
        THEN UNCHANGED vars
        ELSE /\ create_challenge(user_id, context.selected_exercise,
                                  context.total_reps, days.value)
             /\ context_user_data' = (user_id :> <<>>) @@ context_user_data
             /\ UNCHANGED keyboards

(* handle_message, branch challenge_step == 'days' *)
message_days(user_id, text) ==
    LET days == int(text)
        context == ContextOf(user_id)
    IN  IF ~days.ok \/ days.value <= 0 \/ days.value > DaysLimit
        THEN UNCHANGED vars
        ELSE /\ create_challenge(user_id, context.selected_exercise,
                                  context.total_reps, days.value)
             /\ context_user_data' = (user_id :> <<>>) @@ context_user_data
             /\ UNCHANGED keyboards

(* handle_message, branch adding_reps: context.user_data.clear() is reached
   unless the get_challenge_progress after a successful add_reps raises *)
message_adding_reps(user_id, text) ==
    LET reps == int(text)
        challenge_id == ContextOf(user_id).selected_challenge
    IN  IF ~reps.ok \/ reps.value <= 0 \/ reps.value > RepsLimit
        THEN UNCHANGED vars
        ELSE /\ add_reps(user_id, challenge_id, reps.value)
             /\ context_user_data' =
                    IF /\ result'.value
                       /\ ProgressResult("get_challenge_progress", user_data',
                                         user_id, challenge_id, now).raised
                    THEN context_user_data
                    ELSE (user_id :> <<>>) @@ context_user_data
             /\ UNCHANGED keyboards

(* handle_message: the menu buttons first, then the step of the
   conversation.  Settings and Exercise Guide send keyboards whose buttons
   touch neither the store nor context.user_data. *)
handle_message(user_id, text) ==
    IF text = "New Challenge" THEN handle_new_challenge(user_id)
    ELSE IF text \in {"My Challenges", "Progress"} THEN handle_my_challenges(user_id)
    ELSE IF text = "Add Reps" THEN handle_add_reps(user_id)
    ELSE IF text \in {"Settings", "Exercise Guide"} THEN UNCHANGED vars
    ELSE IF StepIs(ContextOf(user_id), "total_reps") THEN message_total_reps(user_id, text)
    ELSE IF StepIs(ContextOf(user_id), "days") THEN message_days(user_id, text)
    ELSE IF AddingReps(ContextOf(user_id)) THEN message_adding_reps(user_id, text)
    ELSE UNCHANGED vars

(* one user talking to the bot *)
NextChat ==
    \/ Tick
    \/ \E u \in OneUser, text \in Texts : handle_message(u, text)
    \/ \E i \in DOMAIN keyboards : \E data \in ButtonsOf(keyboards[i]) :
           handle_callback_query(i, data)

SpecChat == Init /\ [][NextChat]_vars

(* the labels of the menu buttons *)
MenuButtons == {"New Challenge", "My Challenges", "Add Reps", "Progress",
                "Settings", "Exercise Guide"}

(* numbers around the limits: one in every range, one above DaysLimit
   only, one above every limit *)
LimitTexts == {"New Challenge", "Add Reps", "1", "366", "100001"}

NextChatLimits ==
    \/ Tick
    \/ \E u \in OneUser, text \in LimitTexts : handle_message(u, text)
    \/ \E i \in DOMAIN keyboards : \E data \in ButtonsOf(keyboards[i]) :
           handle_callback_query(i, data)

SpecChatLimits == Init /\ [][NextChatLimits]_vars

(* the numbers among them *)
LimitNumbers == {int(text).value : text \in {t \in LimitTexts : int(t).ok}}

(* ------------------------------- C1 ----------------------------------- *)
(* C1: in every reachable state, each challenge's current_reps equals the
   sum of all values of its daily_records. *)
C1_CurrentRepsIsSumOfDailyRecords ==
    \A ref \in ChallengeRefs(user_data) :
        ChallengeAt(user_data, ref).current_reps
            = SumValues(ChallengeAt(user_data, ref).daily_records)

(* reps were logged on two different days of one challenge *)
C1_Witness ==
    \E ref \in ChallengeRefs(user_data) :
        LET records == ChallengeAt(user_data, ref).daily_records
        IN  /\ Cardinality(DOMAIN records) >= 2
            /\ \A day \in DOMAIN records : records[day] > 0

(* ------------------------------- C2 ----------------------------------- *)
(* C2: in every reachable state, a challenge has status completed if and
   only if its current_reps >= total_reps. *)
C2_CompletedIffTargetReached ==
    \A ref \in ChallengeRefs(user_data) :
        LET challenge == ChallengeAt(user_data, ref)
        IN  (challenge.status = COMPLETED)
                <=> (challenge.current_reps >= challenge.total_reps)

(* ------------------------------- C3 ----------------------------------- *)
(* C3: add_reps with a challenge id that is not in the user's mapping
   returns failure and leaves the whole store unchanged, with no new user
   profile either. *)
C3_UnknownChallengeLeavesStoreUnchanged ==
    [][\A u \in Users, c \in ChallengeIds, r \in RepsIn :
          (c \notin ChallengeIdsOf(user_data, u) /\ add_reps(u, c, r))
              => (result'.value = FALSE /\ user_data' = user_data)]_vars

(* ------------------------------- C4 ----------------------------------- *)
(* C4: create_challenge with total_reps <= 0 or days <= 0, and add_reps
   with reps <= 0, end in an error and leave the store unchanged. *)
C4_NonPositiveQuantitiesRejected ==
    [][/\ \A u \in Users, e \in Exercises, n \in TotalRepsIn, d \in DaysIn :
              ((n <= 0 \/ d <= 0) /\ create_challenge(u, e, n, d))
                  => (result'.raised /\ user_data' = user_data)
       /\ \A u \in Users, c \in ChallengeIds, r \in RepsIn :
              (r <= 0 /\ add_reps(u, c, r))
                  => ((result'.raised \/ result'.value = FALSE)
                        /\ user_data' = user_data)]_vars

(* ------------------------------- C5 ----------------------------------- *)
(* C5: the only status change any operation makes to a challenge is
   active -> completed, made by add_reps; a completed challenge is never
   active again; no challenge is ever paused or failed. *)
C5_LifecycleOneWay ==
    [][/\ \A ref \in ChallengeRefs(user_data') :
              ChallengeAt(user_data', ref).status \in {ACTIVE, COMPLETED}
       /\ \A ref \in ChallengeRefs(user_data) \cap ChallengeRefs(user_data') :
              ChallengeAt(user_data', ref).status # ChallengeAt(user_data, ref).status
                  => /\ ChallengeAt(user_data, ref).status = ACTIVE
                     /\ ChallengeAt(user_data', ref).status = COMPLETED
                     /\ result'.op = "add_reps"]_vars

(* ------------------------------- C6 ----------------------------------- *)
(* C6: completion_date is absent while a challenge is active; the add_reps
   call that moves it from active to completed stamps it with the current
   instant; an add_reps call that does not change the status leaves
   completion_date as it was. *)
C6_CompletionDateSetOnlyOnTransition ==
    [][/\ \A ref \in ChallengeRefs(user_data') :
              ChallengeAt(user_data', ref).status = ACTIVE
                  => ~HasCompletionDate(ChallengeAt(user_data', ref))
       /\ \A u \in Users, c \in ChallengeIds, r \in RepsIn :
              (c \in ChallengeIdsOf(user_data, u) /\ add_reps(u, c, r))
                  => LET before == user_data[u].challenges[c]
                         after == user_data'[u].challenges[c]
                     IN  IF after.status # before.status
                         THEN /\ after.status = COMPLETED
                              /\ HasCompletionDate(after)
                              /\ after.completion_date = now
                         ELSE /\ HasCompletionDate(after) = HasCompletionDate(before)
                              /\ HasCompletionDate(before)
                                    => after.completion_date = before.completion_date]_vars

(* ------------------------------- C7 ----------------------------------- *)
(* C7: every challenge's current_reps is >= 0, and no step leaves a
   challenge with a lower current_reps than it had. *)
C7_CurrentRepsNonNegativeMonotonic ==
    [][/\ \A ref \in ChallengeRefs(user_data') :
              ChallengeAt(user_data', ref).current_reps >= 0
       /\ \A ref \in ChallengeRefs(user_data) \cap ChallengeRefs(user_data') :
              ChallengeAt(user_data', ref).current_reps
                  >= ChallengeAt(user_data, ref).current_reps]_vars

(* ------------------------------- C8 ----------------------------------- *)
(* C8: every create_challenge call that returns an id returns one the user
   did not have, so the user's challenge count grows by exactly one and no
   existing challenge is replaced. *)
C8_ChallengeIdsUnique ==
    [][\A u \in Users, e \in Exercises, n \in TotalRepsIn, d \in DaysIn :
          (create_challenge(u, e, n, d) /\ ~result'.raised)
              => /\ result'.value \notin ChallengeIdsOf(user_data, u)
                 /\ Cardinality(ChallengeIdsOf(user_data', u))
                        = Cardinality(ChallengeIdsOf(user_data, u)) + 1
                 /\ \A c \in ChallengeIdsOf(user_data, u) :
                        user_data'[u].challenges[c] = user_data[u].challenges[c]]_vars

(* ------------------------------- C9 ----------------------------------- *)
(* C9: create_challenge(user_id, exercise, total_reps, days) with positive
   integers returns an id under which the user's mapping then holds a
   challenge that is active, has current_reps 0, no daily records,
   start_date = now, target_date = now + days, and the total_reps and
   target_days that were passed. *)
C9_CreateChallengeEffect ==
    [][\A u \in Users, e \in Exercises, n \in TotalRepsIn, d \in DaysIn :
          (n > 0 /\ d > 0 /\ calls' # calls /\ create_challenge(u, e, n, d))
              => /\ ~result'.raised
                 /\ result'.value \in ChallengeIdsOf(user_data', u)
                 /\ LET challenge == user_data'[u].challenges[result'.value]
                    IN  /\ challenge.status = ACTIVE
                        /\ challenge.current_reps = 0
                        /\ DOMAIN challenge.daily_records = {}
                        /\ challenge.start_date = now
                        /\ challenge.target_date = now + d * TicksPerDay
                        /\ challenge.total_reps = n
                        /\ challenge.target_days = d
                        /\ challenge.exercise = ExerciseValue(e)]_vars

(* the last call was a create_challenge with positive quantities, more than
   one day among them, and its challenge is in the store under the id
   returned *)
C9_Witness ==
    /\ result.op = "create_challenge"
    /\ ~result.raised
    /\ \E u \in DOMAIN user_data :
          /\ result.value \in DOMAIN user_data[u].challenges
          /\ user_data[u].challenges[result.value].total_reps > 0
          /\ user_data[u].challenges[result.value].target_days > 1
          /\ user_data[u].challenges[result.value].start_date = now

(* ------------------------------- C10 ---------------------------------- *)
(* the float daily_target times target_days is total_reps, exactly *)
DailyTargetTimesDaysIsTotal(challenge) ==
    /\ FloatIsExact(challenge.daily_target)
    /\ challenge.daily_target.num * challenge.target_days
           = challenge.total_reps * challenge.daily_target.den

(* the fields create_challenge sets and add_reps never writes *)
CreationFields(challenge) ==
    <<challenge.daily_target, challenge.total_reps, challenge.target_days,
      challenge.start_date, challenge.target_date>>

(* C10 as stated: every challenge has daily_target * target_days equal to
   total_reps exactly, and no step changes the daily_target, total_reps,
   target_days, start_date or target_date of a challenge. *)
C10_DailyTargetExactAndFixed ==
    [][/\ \A ref \in ChallengeRefs(user_data') :
              DailyTargetTimesDaysIsTotal(ChallengeAt(user_data', ref))
       /\ \A ref \in ChallengeRefs(user_data) \cap ChallengeRefs(user_data') :
              CreationFields(ChallengeAt(user_data', ref))
                  = CreationFields(ChallengeAt(user_data, ref))]_vars

(* C10 as amended: every challenge's daily_target is the float quotient of
   its total_reps by its target_days, which times target_days is total_reps
   exactly if and only if target_days over its gcd with total_reps is a
   power of two; and no add_reps call changes the daily_target, total_reps,
   target_days, start_date or target_date of a challenge. *)
C10_DailyTargetIsFloatQuotientAndFixed ==
    [][/\ \A ref \in ChallengeRefs(user_data') :
              LET challenge == ChallengeAt(user_data', ref)
              IN  /\ challenge.daily_target
                        = TrueDiv(challenge.total_reps, challenge.target_days)
                  /\ DailyTargetTimesDaysIsTotal(challenge)
                        <=> IsPowerOfTwo(Abs(challenge.target_days)
                                \div Gcd(Abs(challenge.target_days),
                                         Abs(challenge.total_reps)))
       /\ \A u \in Users, c \in ChallengeIds, r \in RepsIn :
              (/\ calls' # calls
               /\ c \in ChallengeIdsOf(user_data, u)
               /\ add_reps(u, c, r))
                  => CreationFields(user_data'[u].challenges[c])
                        = CreationFields(user_data[u].challenges[c])]_vars

(* reps were logged on a challenge whose daily_target is a rounded float *)
C10_Witness ==
    \E ref \in ChallengeRefs(user_data) :
        /\ ~FloatIsExact(ChallengeAt(user_data, ref).daily_target)
        /\ ChallengeAt(user_data, ref).current_reps > 0

(* ------------------------------- C11 ---------------------------------- *)
(* C11: get_challenge_progress called for a challenge that exists leaves the
   store and the file exactly as they were; what it gives back is determined
   by the store and the instant of the call, and asking again in the state it
   left gives the same answer. *)
C11_ProgressIsPure ==
    [][\A u \in Users, c \in ChallengeIds :
          (/\ calls' # calls
           /\ c \in ChallengeIdsOf(user_data, u)
           /\ get_challenge_progress(u, c))
          => /\ user_data' = user_data
             /\ disk' = disk
             /\ result' = ProgressResult("get_challenge_progress", user_data, u, c, now)
             /\ result' = ProgressResult("get_challenge_progress", user_data', u, c, now')]_vars

(* a snapshot was returned for a challenge with reps logged *)
C11_Witness ==
    /\ result.op = "get_challenge_progress"
    /\ ~result.raised
    /\ "challenge" \in DOMAIN result.value
    /\ result.value.challenge.current_reps > 0
    /\ \E r \in ChallengeRefs(user_data) :
           ChallengeAt(user_data, r) = result.value.challenge

(* ------------------------------- C12 ---------------------------------- *)
(* C12: get_active_challenges(u) returns a list that holds exactly one
   snapshot for each challenge of u whose status is "active" and no snapshot
   of any other challenge, whatever the store holds. *)
C12_ActiveListIsTheActiveChallenges ==
    [][\A u \in Users :
          (calls' # calls /\ get_active_challenges(u))
          => /\ ~result'.raised
             /\ Len(result'.value) = Cardinality(ActiveIds(user_data'[u]))
             /\ \A c \in ActiveIds(user_data'[u]) :
                    \E i \in 1..Len(result'.value) :
                        result'.value[i].challenge = user_data'[u].challenges[c]
             /\ \A i \in 1..Len(result'.value) :
                    \E c \in ActiveIds(user_data'[u]) :
                        result'.value[i].challenge = user_data'[u].challenges[c]]_vars

(* ------------------------------- C13 ---------------------------------- *)
(* C13: when a firing of send_daily_reminders passes a user, it hands no
   message to send_message if the user's reminders_enabled is false or the
   user has no active challenge; otherwise it hands over a message with
   exactly one line for each active challenge of the user, and so none for a
   completed one. *)
C13_OneLinePerActiveChallenge ==
    [][\A u \in DOMAIN user_data :
          (reminder'.visited # reminder.visited /\ remind_user(u))
          => LET active == ActiveIds(user_data[u])
             IN  IF ~user_data[u].reminders_enabled \/ active = {}
                 THEN u \notin DOMAIN reminder'.sent
                 ELSE /\ u \in DOMAIN reminder'.sent
                      /\ Len(reminder'.sent[u]) = Cardinality(active)
                      /\ \A c \in active :
                             \E i \in 1..Len(reminder'.sent[u]) :
                                 reminder'.sent[u][i].exercise =
                                     Title(user_data[u].challenges[c].exercise)]_vars

(* ------------------------------- C14 ---------------------------------- *)
(* the class the three rules give for today's reps and the daily target *)
ReminderClass(today_reps, daily_target) ==
    IF today_reps = 0 THEN "reps needed"
    ELSE IF 0 < today_reps /\ ~FloatGE(TrueDiv(today_reps, 1), daily_target)
    THEN "more reps"
    ELSE IF FloatGE(TrueDiv(today_reps, 1), daily_target) THEN "goal achieved"
    ELSE "no class"

(* C14: every line of a reminder is of the class that today's entry of
   daily_records (0 if there is none) and daily_target give: 0 reps today is
   "reps needed" and carries daily_target, more than 0 and fewer than
   daily_target is "more reps" and carries daily_target - today's reps,
   daily_target or more is "goal achieved"; entries of other days play no
   part. *)
C14_LineClassFromTodayReps ==
    [][\A u \in DOMAIN user_data :
          (/\ reminder'.visited # reminder.visited
           /\ remind_user(u)
           /\ u \in DOMAIN reminder'.sent)
          => LET ids == SeqOf(ActiveIds(user_data[u]))
             IN  \A i \in 1..Len(ids) :
                    LET challenge == user_data[u].challenges[ids[i]]
                        today_reps == TodayReps(challenge, now)
                        target == challenge.daily_target
                        line == reminder'.sent[u][i]
                    IN  /\ line.class = ReminderClass(today_reps, target)
                        /\ line.class = "reps needed" => line.value = target
                        /\ line.class = "more reps" =>
                               line.value = TrueDiv(target.num - today_reps * target.den,
                                                    target.den)]_vars

(* ------------------------------- C15 ---------------------------------- *)
(* C15: get_challenge_progress called for a challenge that exists, at or
   after its start_date, returns a snapshot and never raises; in it
   days_elapsed is at least 1, days_remaining is the whole days from now to
   target_date also when that is negative, and needed_daily_avg is the reps
   still to do over days_remaining, over 1 when days_remaining is 1 or
   less. *)
C15_ProgressNeverFails ==
    [][\A u \in Users, c \in ChallengeIds :
          (/\ calls' # calls
           /\ c \in ChallengeIdsOf(user_data, u)
           /\ get_challenge_progress(u, c)
           /\ now >= user_data[u].challenges[c].start_date)
          => LET challenge == user_data[u].challenges[c]
             IN  /\ ~result'.raised
                 /\ result'.value.days_elapsed >= 1
                 /\ result'.value.days_remaining = DaysOf(challenge.target_date - now)
                 /\ now > challenge.target_date => result'.value.days_remaining < 0
                 /\ result'.value.needed_daily_avg =
                        TrueDiv(challenge.total_reps - challenge.current_reps,
                                IF result'.value.days_remaining <= 1 THEN 1
                                ELSE result'.value.days_remaining)]_vars

(* ------------------------------- C16 ---------------------------------- *)
(* C16: in every snapshot get_challenge_progress returns, on_track is true
   exactly when current_reps * target_days >= total_reps * days_elapsed;
   equality is on track. *)
C16_OnTrackIffCrossProduct ==
    [][\A u \in Users, c \in ChallengeIds :
          (/\ calls' # calls
           /\ c \in ChallengeIdsOf(user_data, u)
           /\ get_challenge_progress(u, c)
           /\ ~result'.raised)
          => LET challenge == user_data[u].challenges[c]
             IN  result'.value.on_track
                 <=> challenge.current_reps * challenge.target_days
                        >= challenge.total_reps * result'.value.days_elapsed]_vars

(* ------------------------------- C17 ---------------------------------- *)
(* C17: get_challenge_progress called for a challenge that exists returns a
   snapshot whose projected_date is None exactly when current_reps is 0, and
   is a date whenever current_reps is above 0. *)
C17_ProjectedDateIffRepsLogged ==
    [][\A u \in Users, c \in ChallengeIds :
          (/\ calls' # calls
           /\ c \in ChallengeIdsOf(user_data, u)
           /\ get_challenge_progress(u, c))
          => /\ user_data[u].challenges[c].current_reps > 0
                => ~result'.raised /\ ~result'.value.projected_date.is_none
             /\ ~result'.raised
                => (result'.value.projected_date.is_none
                    <=> user_data[u].challenges[c].current_reps = 0)]_vars

(* ------------------------------- C18 ---------------------------------- *)
(* C18: while the disk works, every call that changed the store leaves the
   dump of the changed store in the file; while it does not work,
   create_challenge still returns the id with the challenge in the store and
   add_reps still returns True with the reps counted, whatever became of the
   file; and a start of the process that cannot read the file back begins
   with the empty store. *)
C18_PersistenceIsBestEffort ==
    [][/\ (calls' # calls /\ disk_ok /\ user_data' # user_data)
          => disk' = Dump(user_data')
       /\ \A u \in OneUser, e \in Exercises, n \in TotalRepsIn, d \in DaysIn :
              (calls' # calls /\ ~disk_ok /\ d # 0 /\ create_challenge(u, e, n, d))
              => /\ result' = Returned("create_challenge", ChallengeId(e, now))
                 /\ ChallengeId(e, now) \in ChallengeIdsOf(user_data', u)
                 /\ user_data'[u].challenges[ChallengeId(e, now)]
                        = NewChallenge(e, n, d, now)
       /\ \A u \in OneUser, c \in ChallengeIds, r \in RepsIn :
              (/\ calls' # calls
               /\ ~disk_ok
               /\ c \in ChallengeIdsOf(user_data, u)
               /\ add_reps(u, c, r))
              => /\ result' = Returned("add_reps", TRUE)
                 /\ user_data'[u].challenges[c].current_reps
                        = user_data[u].challenges[c].current_reps + r
       /\ (calls' = calls /\ restart /\ (disk.kind # "dump" \/ ~disk_ok))
          => user_data' = EmptyStore]_vars

(* a save failed and add_reps returned True all the same: the store holds
   reps that the file does not *)
C18_Witness ==
    /\ ~disk_ok
    /\ result.op = "add_reps"
    /\ result.value
    /\ disk \in {NoFile, PartialDump} \/ disk.data # user_data
    /\ \E r \in ChallengeRefs(user_data) : ChallengeAt(user_data, r).current_reps > 0

(* ------------------------------- C19 ---------------------------------- *)
(* the profile of user v, with all its challenges, is as it was, and v has
   no profile if it had none *)
ProfileUnchanged(v) ==
    IF v \in DOMAIN user_data
    THEN v \in DOMAIN user_data' /\ user_data'[v] = user_data[v]
    ELSE v \notin DOMAIN user_data'

(* C19: a call of create_challenge, add_reps, get_challenge_progress or
   get_active_challenges for one user leaves the profile and the challenges
   of every other user as they were; in particular a challenge created for
   one user never appears among another user's challenges. *)
C19_OtherUsersUnchanged ==
    [][\A u \in Users :
          (/\ calls' # calls
           /\ user_data' # user_data
           /\ \/ \E e \in Exercises, n \in TotalRepsIn, d \in DaysIn :
                    create_challenge(u, e, n, d)
              \/ \E c \in ChallengeIds, r \in RepsIn : add_reps(u, c, r)
              \/ \E c \in ChallengeIds : get_challenge_progress(u, c)
              \/ get_active_challenges(u))
          => \A v \in Users \ {u} : ProfileUnchanged(v)]_vars

(* both users own challenges, one of them with reps logged, and they differ *)
C19_Witness ==
    /\ DOMAIN user_data = Users
    /\ \A u \in Users : DOMAIN user_data[u].challenges # {}
    /\ \E u \in Users : \E c \in DOMAIN user_data[u].challenges :
           user_data[u].challenges[c].current_reps > 0
    /\ \E u, v \in Users : user_data[u].challenges # user_data[v].challenges

(* ------------------------------- C20 ---------------------------------- *)
(* C20: whatever the user does in the chat (menu buttons, buttons of
   earlier messages, numbers), add_reps is never applied to a challenge
   whose status is already "completed". *)
C20_NoRepsAfterCompletion ==
    [][\A u \in OneUser : \A c \in ChallengeIdsOf(user_data, u) :
          \A reps \in TextNumbers :
             (/\ calls' # calls
              /\ user_data[u].challenges[c].status = COMPLETED)
             => ~add_reps(u, c, reps)]_vars

(* ------------------------------- C21 ---------------------------------- *)
(* C21: a firing of send_daily_reminders in which the reminder of some user
   failed (the user id is no number, send_message raised) and was logged
   does not fail itself: it goes on to the remaining users. *)
C21_LoggedFailureDoesNotEndTheFiring ==
    reminder.logged # {} => reminder.pc # "raised"

(* ------------------------------- C22 ---------------------------------- *)
(* C22: a firing of send_daily_reminders is not ended by a handler that
   adds a profile to the store while the firing awaits send_message: the
   iteration over the store does not raise. *)
C22_NewProfileDoesNotEndTheFiring ==
    reminder.exception # "RuntimeError"

(* ------------------------------- C23 ---------------------------------- *)
(* text is a whole number from 1 to limit *)
InRange(text, limit) ==
    int(text).ok /\ int(text).value >= 1 /\ int(text).value <= limit

(* the conversation of user_id waits for a number and text, which is no menu
   button, is not a number of the range waited for *)
Rejected(user_id, text) ==
    LET context == ContextOf(user_id)
    IN  /\ text \notin MenuButtons
        /\ \/ StepIs(context, "total_reps") /\ ~InRange(text, 100000)
           \/ StepIs(context, "days") /\ ~InRange(text, 365)
           \/ /\ ~StepIs(context, "total_reps") /\ ~StepIs(context, "days")
              /\ AddingReps(context) /\ ~InRange(text, 10000)

(* C23: the conversation calls create_challenge only with total_reps from 1
   to 100000 and days from 1 to 365, and add_reps only with reps from 1 to
   10000; a message (other than a menu button) that is no number or is out
   of the range waited for changes neither the store nor the step of the
   conversation. *)
C23_OnlyNumbersInRangeReachTheEngine ==
    [][/\ calls' # calls =>
           \A u \in OneUser :
              /\ \A e \in Exercises, n \in LimitNumbers, d \in LimitNumbers :
                     create_challenge(u, e, n, d) =>
                         n \in 1..100000 /\ d \in 1..365
              /\ \A c \in ChallengeIdsOf(user_data, u), reps \in LimitNumbers :
                     add_reps(u, c, reps) => reps \in 1..10000
       /\ \A u \in OneUser, text \in LimitTexts :
              Rejected(u, text) /\ handle_message(u, text) =>
                  UNCHANGED <<user_data, disk, context_user_data>>]_vars

(* a challenge of more reps than a challenge may have days was created
   through the conversation, and as many reps were logged in one entry *)
C23_Witness ==
    \E u \in DOMAIN user_data : \E c \in DOMAIN user_data[u].challenges :
        /\ user_data[u].challenges[c].total_reps > 365
        /\ user_data[u].challenges[c].target_days <= 365
        /\ user_data[u].challenges[c].current_reps > 365

(* ------------------------------- C24 ---------------------------------- *)
(* C24: the conversation calls create_challenge only at the step 'days',
   reached from an exercise selection through a valid total, and with the
   exercise and the total kept from them; and after a step of the
   conversation that called create_challenge or add_reps the user's
   context.user_data is empty, so that the next number calls neither until
   a button is pressed again. *)
C24_FlowInOrderAndClearedAfterwards ==
    [][calls' # calls =>
          \A u \in OneUser :
             /\ result'.op = "create_challenge" =>
                    LET context == ContextOf(u)
                        created == user_data'[u].challenges[result'.value]
                    IN  /\ StepIs(context, "days")
                        /\ created.exercise = ExerciseValue(context.selected_exercise)
                        /\ created.total_reps = context.total_reps
             /\ context_user_data'[u] = <<>>]_vars

====
